---------------------------- MODULE Spec2Model ----------------------------
(***************************************************************************)
(* The compose orchestrator of email-app (compose/server.js) together with *)
(* the parts of the shared utilities, the author-agent and the send-agent  *)
(* that decide what the orchestrator stores and sends.                     *)
(*                                                                         *)
(* One workflow instance (one instance id) is modelled.  Every HTTP        *)
(* request to compose is an operation occupying one slot of `ops`; an      *)
(* operation advances from one `await` of its handler to the next, so the  *)
(* steps of different operations interleave exactly where the Node.js      *)
(* event loop may interleave them.                                         *)
(***************************************************************************)
EXTENDS Integers, Sequences, FiniteSets, TLC

(***************************************************************************)
(* Bounds of the model.                                                    *)
(***************************************************************************)
\* number of requests (operations) received over a run
MaxOps == 3
\* number of operations that may be in flight at the same time
MaxConc == 2
\* the clock (second resolution) runs from 1 to MaxTime
MaxTime == 2

Procs == 1..MaxOps

(***************************************************************************)
(* Values.  A JavaScript string that is undefined, null or '' is falsy:    *)
(* all three are the empty string here.  An array is truthy even when      *)
(* empty, so an optional array keeps whether it is present.                *)
(***************************************************************************)
NoList == [present |-> FALSE, items |-> <<>>]
List(s) == [present |-> TRUE, items |-> s]

\* a || b on strings
OrStr(a, b) == IF a # "" THEN a ELSE b
\* a || b on optional arrays
OrList(a, b) == IF a.present THEN a ELSE b

\* arr.filter(Boolean) on an array of strings
RECURSIVE FilterBoolean(_)
FilterBoolean(s) ==
    IF s = <<>> THEN <<>>
    ELSE IF Head(s) # "" THEN <<Head(s)>> \o FilterBoolean(Tail(s))
    ELSE FilterBoolean(Tail(s))

\* String.prototype.trim on the strings the model uses
Trim(s) ==
    CASE s = "  " -> ""
      [] s = " Make it shorter " -> "Make it shorter"
      [] OTHER -> s

(***************************************************************************)
(* config.json of the instance: read, never written, by the services.      *)
(***************************************************************************)
EmptyConfig ==
    [subject |-> "", EMAIL_SUBJECT |-> "", to |-> NoList, cc |-> NoList,
     bcc |-> NoList, sender_email |-> "", SENDER_EMAIL |-> "",
     sender_name |-> "", SENDER_NAME |-> ""]

Configs ==
    { EmptyConfig,
      [EmptyConfig EXCEPT !.subject = "CfgSubject",
                          !.to = List(<<"c@x.com">>),
                          !.sender_email = "noreply@x.com",
                          !.sender_name = "Cfg Sender"],
      [EmptyConfig EXCEPT !.EMAIL_SUBJECT = "EnvSubject",
                          !.cc = List(<<"cc@x.com">>),
                          !.SENDER_EMAIL = "env@x.com"] }

\* the overrides a request body may carry; {} carries none
EmptyPayload ==
    [subject |-> "", to |-> NoList, cc |-> NoList, bcc |-> NoList,
     sender_email |-> "", sender_name |-> ""]

\* mergeConfig taking the request's overrides as a whole when it has any
mergeConfig_WholeObject(cfg, payload) ==
    LET src == IF payload # EmptyPayload
               THEN [EmptyConfig EXCEPT !.subject = payload.subject,
                        !.to = payload.to, !.cc = payload.cc,
                        !.bcc = payload.bcc,
                        !.sender_email = payload.sender_email,
                        !.sender_name = payload.sender_name]
               ELSE cfg
    IN [subject |-> OrStr(src.subject, src.EMAIL_SUBJECT),
        to |-> (OrList(src.to, List(<<>>))).items,
        cc |-> (OrList(src.cc, List(<<>>))).items,
        bcc |-> (OrList(src.bcc, List(<<>>))).items,
        sender_email |-> OrStr(src.sender_email, src.SENDER_EMAIL),
        sender_name |-> OrStr(src.sender_name, src.SENDER_NAME)]

mergeConfig(cfg, payload) ==
    [subject |-> OrStr(payload.subject, OrStr(cfg.subject, cfg.EMAIL_SUBJECT)),
     to |-> (OrList(payload.to, OrList(cfg.to, List(<<>>)))).items,
     cc |-> (OrList(payload.cc, OrList(cfg.cc, List(<<>>)))).items,
     bcc |-> (OrList(payload.bcc, OrList(cfg.bcc, List(<<>>)))).items,
     sender_email |-> OrStr(payload.sender_email,
                            OrStr(cfg.sender_email, cfg.SENDER_EMAIL)),
     sender_name |-> OrStr(payload.sender_name,
                           OrStr(cfg.sender_name, cfg.SENDER_NAME))]

\* requireRecipients(to, cc, bcc) # null
requireRecipients(to, cc, bcc) ==
    ~ ( FilterBoolean(to) = <<>> /\ FilterBoolean(cc) = <<>>
        /\ FilterBoolean(bcc) = <<>> )


(***************************************************************************)
(* State.                                                                  *)
(***************************************************************************)
VARIABLES
    meta,       \* meta.json of the instance (exists = the file exists)
    config,     \* config.json of the instance
    artifacts,  \* artifacts/: email.html (0) and email-k.html (k)
    ops,        \* the requests received by compose, by slot
    now,        \* the wall clock, in seconds
    drafted,    \* number of documents the LLM has produced
    tally,      \* per service, the number of requests it was sent
    delivered,  \* number of mails the mail provider accepted
    reviewed,   \* the documents submitted for review
    launched,   \* merged configuration of the latest valid new-send
    sink        \* the log sink logEvent posts to: up, down or answering 500

vars ==
    <<meta, config, artifacts, ops, now, drafted, tally, delivered, reviewed,
      launched, sink>>

\* artifacts maps 0 to the content of email.html and k to that of
\* email-k.html, for the files that exist
NoFiles == [k \in {} |-> ""]

\* readJsonSafe(meta) || {} of a file that does not exist
NoMeta ==
    [exists |-> FALSE, status |-> "", gen_count |-> 0, owner |-> "",
     started_at |-> 0, finished_at |-> 0]

\* the answer of a called service; ok = FALSE and code = 0: fetch threw
NoRet ==
    [ok |-> FALSE, html |-> "", code |-> 0, error |-> "", status |-> "",
     info |-> ""]

NoResp == [code |-> 0, body |-> "", detail |-> ""]

NoMerged == mergeConfig(EmptyConfig, EmptyPayload)

\* a slot: the handler's position (pc), its local variables, the response
\* given to the caller (resp), the error the handler threw (err), and the
\* events and service requests the operation has posted, in posting order.
\* before is meta.json as the request found it.
IdleOp ==
    [pc |-> "idle", kind |-> "", async |-> FALSE, username |-> "",
     instructions |-> "", base_html |-> "", information |-> "",
     action |-> "", merged |-> NoMerged, nextGen |-> 0, html |-> "",
     newInstr |-> "", payload |-> EmptyPayload,
     ret |-> NoRet, resp |-> NoResp, err |-> "", events |-> <<>>,
     calls |-> <<>>, before |-> NoMeta]

\* a slot whose request has been answered and whose handler has ended keeps
\* nothing once the next request arrives
RetiredOp == [IdleOp EXCEPT !.pc = "done"]

Services == {"draft", "review", "deliver"}

\* what the log sink may do with a post: accept it, be unreachable, or
\* answer with an error status
SinkStates == {"up", "down", "error"}

\* the instance and the services before the first request, config.json
\* apart
Fresh ==
    /\ meta = NoMeta
    /\ artifacts = NoFiles
    /\ ops = [p \in Procs |-> IdleOp]
    /\ now = 1
    /\ drafted = 0
    /\ tally = [s \in Services |-> 0]
    /\ delivered = 0
    /\ reviewed = {}
    /\ launched = NoMerged

\* the instance has one of the configurations
Boot == Fresh /\ config \in Configs

\* the log sink is up
Init == Boot /\ sink = "up"

\* the log sink is in any of its states, and stays in it
SinkInit == Boot /\ sink \in SinkStates

(***************************************************************************)
(* shared: updateMeta, logEvent, readLatestEmailHtml.                      *)
(***************************************************************************)
\* updateMeta(instanceId, updater): the file written is the updater's result
updateMeta(next) == [next EXCEPT !.exists = TRUE]

\* the record logEvent posts; received: the sink took it
Event(service, type, message, note) ==
    [service |-> service, event_type |-> type, message |-> message,
     note |-> note, received |-> sink = "up"]

\* logEvent letting the failure of the post reach its caller
logEvent_Propagates(op, service, type, message, note) ==
    IF sink = "up"
    THEN [op EXCEPT !.events = Append(@, Event(service, type, message, note))]
    ELSE [op EXCEPT !.pc = "done", !.err = "log_event_failed"]

\* logEvent whose post overtakes the posts made before it
logEvent_Overtakes(op, service, type, message, note) ==
    [op EXCEPT !.events = <<Event(service, type, message, note)>> \o @]

\* logEvent: the post is made before logEvent first awaits.  When fetch
\* throws or the sink answers with an error status, logEvent writes to
\* console.error and returns as when the post succeeds.
logEvent(op, service, type, message, note) ==
    [op EXCEPT !.events = Append(@, Event(service, type, message, note))]

readLatestEmailHtml == IF 0 \in DOMAIN artifacts THEN artifacts[0] ELSE ""

\* validateInstanceId(value): a string that is not blank
validateInstanceId(value) == Trim(value) # ""

\* the id of the instance
InstanceId == "inst-1"

\* a request of compose to a service; it carries the id of the instance
NoCall ==
    [svc |-> "", instance_id |-> InstanceId, html |-> "", base_html |-> "",
     instructions |-> "", loop |-> 0, username |-> "", subject |-> "",
     to |-> <<>>, cc |-> <<>>, bcc |-> <<>>, sender_email |-> "",
     sender_name |-> ""]

\* fetch(url, ..): the request is sent
fetch(op, call) == [op EXCEPT !.calls = Append(@, call)]

(***************************************************************************)
(* compose: markInstanceActive, abortInstance, finishAs, the gen_count     *)
(* updaters.  Each gives the record updateMeta writes.                     *)
(***************************************************************************)
\* markInstanceActive stamping owner and started_at at every activation
markInstanceActive_Restamps(prev, username, t) ==
    updateMeta([prev EXCEPT
        !.status = "active",
        !.started_at = t,
        !.owner = IF username # "" THEN username ELSE prev.owner])

markInstanceActive(prev, username, t) ==
    updateMeta([prev EXCEPT
        !.status = "active",
        !.started_at = IF prev.started_at = 0 THEN t ELSE prev.started_at,
        !.owner = IF username # "" /\ prev.owner = "" THEN username
                  ELSE prev.owner])

abortInstance(prev, t) ==
    updateMeta([prev EXCEPT !.status = "abort", !.finished_at = t])

\* finishAs writing finished whatever status it is given
finishAs_AlwaysFinished(prev, status, t) ==
    updateMeta([prev EXCEPT !.status = "finished", !.finished_at = t])

finishAs(prev, status, t) ==
    updateMeta([prev EXCEPT !.status = status, !.finished_at = t])

\* runFlow's updater counting a generation twice
incGenCount_Twice(prev) ==
    updateMeta([prev EXCEPT !.gen_count = prev.gen_count + 2])

\* runFlow's updater: gen_count + 1
incGenCount(prev) ==
    updateMeta([prev EXCEPT !.gen_count = prev.gen_count + 1])

\* the modify branch's updater setting status active only
incGenCountActive_StatusOnly(prev) ==
    updateMeta([prev EXCEPT !.status = "active"])

\* the modify branch's updater: gen_count + 1 and status active
incGenCountActive(prev) ==
    updateMeta([prev EXCEPT !.gen_count = prev.gen_count + 1,
                            !.status = "active"])

\* updateMeta(instanceId, { status: 'wait' })
setWait(prev) == updateMeta([prev EXCEPT !.status = "wait"])

\* hitlAccepted of submitHitlAndHandle, of the response callHitlAgent returns
hitlAccepted(r) ==
    /\ (r.code = 200 \/ r.code = 202)
    /\ r.error = ""
    /\ r.status # "no-hitl"
    /\ r.status # "skip"

(***************************************************************************)
(* author-agent: rotateEmailFiles and the write of handleGenerate.         *)
(***************************************************************************)
\* fs.renameSync(src, dest)
renameSync(f, src, dest) ==
    [k \in (DOMAIN f \ {src}) \cup {dest} |->
        IF k = dest THEN f[src] ELSE f[k]]

\* the first n >= 1 for which email-n.html does not exist
RECURSIVE firstFree(_, _)
firstFree(f, n) == IF n \in DOMAIN f THEN firstFree(f, n + 1) ELSE n

\* for (i = from; i >= 1; i -= 1) rename email-i.html to email-(i+1).html
RECURSIVE shiftDown(_, _)
shiftDown(f, i) ==
    IF i < 1 THEN f ELSE shiftDown(renameSync(f, i, i + 1), i - 1)

\* rotateEmailFiles moving email.html only, onto email-1.html
rotateEmailFiles_Overwrite(f) ==
    IF 0 \notin DOMAIN f THEN f
    ELSE [k \in (DOMAIN f \ {0}) \cup {1} |-> IF k = 1 THEN f[0] ELSE f[k]]

rotateEmailFiles(f) ==
    IF 0 \notin DOMAIN f THEN f
    ELSE renameSync(shiftDown(f, firstFree(f, 1) - 1), 0, 1)

\* fs.writeFileSync(draftHtml, html)
writeDraft(f, html) ==
    [k \in DOMAIN f \cup {0} |-> IF k = 0 THEN html ELSE f[k]]

\* the k-th document the LLM produces
HtmlName(k) == "H" \o ToString(k)

(***************************************************************************)
(* Requests.                                                               *)
(***************************************************************************)
\* bodies of POST /compose/send
SendRequests ==
    { r \in [username : {"alice", ""},
             instructions : {"Say hello", ""},
             regen_base_html : {"", "B0"},
             overrides : { EmptyPayload,
                           [EmptyPayload EXCEPT !.subject = "Hi",
                                                !.to = List(<<"a@x.com">>)],
                           [EmptyPayload EXCEPT !.subject = "Hi",
                                                !.to = List(<<"">>)] },
             async : BOOLEAN] :
        /\ r.username = "" => r.instructions # "" /\ ~r.async
        /\ r.regen_base_html # "" => r.instructions = "" /\ ~r.async
        /\ r.instructions = "" => ~r.async
        /\ r.overrides.subject = "" =>
               r.username # "" /\ r.instructions # "" /\ ~r.async
        /\ r.overrides.to = List(<<"">>) =>
               r.username # "" /\ r.instructions # "" /\ ~r.async
        /\ r.username = "" => r.overrides.to = List(<<"a@x.com">>)
        /\ r.instructions = "" => r.overrides.to = List(<<"a@x.com">>) }

inFlight == {q \in Procs : ops[q].pc \notin {"idle", "done"}}

\* the next free slot takes the request, when fewer than k are in flight
canStart(p, k) ==
    /\ ops[p].pc = "idle"
    /\ \A q \in Procs : q < p => ops[q].pc # "idle"
    /\ Cardinality(inFlight) < k

\* the slots as the request arriving in slot p leaves them
receive(p, op) ==
    [q \in Procs |->
        IF q = p THEN [op EXCEPT !.before = meta]
        ELSE IF ops[q].pc = "done" THEN RetiredOp
        ELSE ops[q]]

\* sendJson(res, code, body)
sendJson(code, body, detail) ==
    [code |-> code, body |-> body, detail |-> detail]


(***************************************************************************)
(* The service clients.  Each gives the operation with its request sent.   *)
(***************************************************************************)
callAuthorAgent(op, instructions, base_html) ==
    fetch(op, [NoCall EXCEPT !.svc = "draft", !.username = op.username,
                             !.instructions = instructions,
                             !.base_html = base_html,
                             !.subject = op.merged.subject])

callHitlAgent(op, html, loopIndex) ==
    fetch(op, [NoCall EXCEPT !.svc = "review", !.html = html,
                             !.loop = loopIndex + 1])

callEmailAgent(op, html, merged) ==
    fetch(op, [NoCall EXCEPT !.svc = "deliver", !.html = html,
                             !.username = op.username,
                             !.subject = merged.subject, !.to = merged.to,
                             !.cc = merged.cc, !.bcc = merged.bcc,
                             !.sender_email = merged.sender_email,
                             !.sender_name = merged.sender_name])

\* the request counters after a request to service s
count(s) == [tally EXCEPT ![s] = @ + 1]

(***************************************************************************)
(* The catch blocks and finishAs of handleHitlCallback.                    *)
(***************************************************************************)
\* catch of handleComposeSend: the error is logged; nothing is written
composeCatch(op, msg) ==
    logEvent([op EXCEPT !.pc = "cs_err", !.err = msg], "compose", "record",
             IF op.async THEN "Compose async error" ELSE "Compose error", msg)

\* handler() of handleHitlCallback has ended: normally (msg = "") or by a
\* throw.  The async caller has had its 202 already.
handlerEnd(op, msg) ==
    [op EXCEPT !.pc = "done", !.err = msg,
               !.resp = IF op.async THEN @
                        ELSE IF msg = "" THEN sendJson(200, "ok", "")
                        ELSE sendJson(400, "hitl_callback_failed", msg)]

\* the logEvent of finishAs(status, logMsg)
finishAsEvent(op, status, logMsg) ==
    logEvent(op, "compose", "state_change", "state - " \o status, logMsg)

\* catch of the modify branch, after its finishAs('abort'): rethrow
modifyCatch(op, msg) ==
    handlerEnd(finishAsEvent(op, "abort", "modify failed: " \o msg), msg)

(***************************************************************************)
(* handleComposeSend.                                                      *)
(***************************************************************************)
\* the validation without its check of the recipients
composeSendInvalid_AnyRecipients(req, merged) ==
    IF req.username = "" THEN "username_required"
    ELSE IF req.instructions = "" /\ req.regen_base_html = ""
         THEN "instructions_required"
    ELSE IF merged.subject = "" THEN "subject_missing_after_merge"
    ELSE ""

\* the reason code of the validation, "" when the request is valid
composeSendInvalid(req, merged) ==
    IF req.username = "" THEN "username_required"
    ELSE IF req.instructions = "" /\ req.regen_base_html = ""
         THEN "instructions_required"
    ELSE IF merged.subject = "" THEN "subject_missing_after_merge"
    ELSE IF ~requireRecipients(merged.to, merged.cc, merged.bcc)
         THEN "recipients_missing_after_merge"
    ELSE ""

\* from the request to the await of the first logEvent.  ensureDir makes
\* the directory of the instance; the record of the instance is meta.json,
\* which is first written by markInstanceActive
ComposeSend(p, req, k) ==
    /\ canStart(p, k)
    /\ LET merged == mergeConfig(config, req.overrides)
           reason == composeSendInvalid(req, merged)
           op == [IdleOp EXCEPT !.kind = "send", !.async = req.async,
                                !.username = req.username,
                                !.instructions = req.instructions,
                                !.base_html = req.regen_base_html,
                                !.payload = req.overrides,
                                !.merged = merged]
       IN IF reason # ""
          THEN /\ ops' = receive(p, [op EXCEPT !.pc = "done",
                                       !.resp = sendJson(400, reason, "")])
               /\ UNCHANGED launched
          ELSE /\ ops' = receive(p,
                    logEvent([op EXCEPT !.pc = "cs_recv"], "compose",
                             "record",
                             "Email-App Agent received call to launch", ""))
               /\ launched' = merged
    /\ UNCHANGED <<meta, config, sink, artifacts, now, drafted, tally, delivered,
                   reviewed>>

\* markInstanceActive and the logEvent of the state change
CsMarkActive(p) ==
    /\ ops[p].pc = "cs_recv"
    /\ meta' = markInstanceActive(meta, ops[p].username, now)
    /\ ops' = [ops EXCEPT ![p] =
          logEvent([@ EXCEPT !.pc = "cs_active"], "compose", "state_change",
                   "state - active", "")]
    /\ UNCHANGED <<config, sink, artifacts, now, drafted, tally, delivered,
                   reviewed, launched>>

\* runFlow up to the await of its logEvent: the gen_count increment
runFlowStart(p) ==
    /\ meta' = incGenCount(meta)
    /\ ops' = [ops EXCEPT ![p] =
          logEvent([@ EXCEPT !.pc = "cs_pre", !.nextGen = meta'.gen_count],
                   "compose", "record", "Calling LLM to generate email", "")]

\* the dispatch answering the detached caller only when runFlow has ended
CsDispatch_NoAck(p) ==
    /\ ops[p].pc = "cs_active"
    /\ IF ops[p].async
       THEN /\ ops' = [ops EXCEPT ![p].pc = "cs_sched"]
            /\ UNCHANGED meta
       ELSE runFlowStart(p)
    /\ UNCHANGED <<config, sink, artifacts, now, drafted, tally, delivered,
                   reviewed, launched>>

\* async: setImmediate(runFlow) and the 202; otherwise runFlow is entered
CsDispatch(p) ==
    /\ ops[p].pc = "cs_active"
    /\ IF ops[p].async
       THEN /\ ops' = [ops EXCEPT ![p].pc = "cs_sched",
                         ![p].resp = sendJson(202, "accepted", "")]
            /\ UNCHANGED meta
       ELSE runFlowStart(p)
    /\ UNCHANGED <<config, sink, artifacts, now, drafted, tally, delivered,
                   reviewed, launched>>

\* the detached runFlow forgetting the gen_count increment
CsRunFlow_NoCount(p) ==
    /\ ops[p].pc = "cs_sched"
    /\ ops' = [ops EXCEPT ![p] =
          logEvent([@ EXCEPT !.pc = "cs_pre",
                             !.nextGen = meta.gen_count + 1],
                   "compose", "record", "Calling LLM to generate email", "")]
    /\ UNCHANGED <<meta, config, sink, artifacts, now, drafted, tally, delivered,
                   reviewed, launched>>

\* the setImmediate callback of the async branch
CsRunFlow(p) ==
    /\ ops[p].pc = "cs_sched"
    /\ runFlowStart(p)
    /\ UNCHANGED <<config, sink, artifacts, now, drafted, tally, delivered,
                   reviewed, launched>>

\* runFlow calls callAuthorAgent
CsCallAuthor(p) ==
    /\ ops[p].pc = "cs_pre"
    /\ ops' = [ops EXCEPT ![p] =
          callAuthorAgent([@ EXCEPT !.pc = "draft"], ops[p].instructions,
                          ops[p].base_html)]
    /\ tally' = count("draft")
    /\ UNCHANGED <<meta, config, sink, artifacts, now, drafted, delivered,
                   reviewed, launched>>

(***************************************************************************)
(* author-agent: handleGenerate answering a callAuthorAgent.               *)
(***************************************************************************)
\* the LLM answers with a new document; or the service is down or answers
\* with an error status
AuthorOutcomes == {"html", "fail"}

handleGenerate(p, out) ==
    /\ ops[p].pc = "draft"
    /\ out \in AuthorOutcomes
    /\ IF out = "fail"
       THEN /\ ops' = [ops EXCEPT ![p].pc = "draft_r",
                         ![p].ret = [NoRet EXCEPT !.code = 500]]
            /\ UNCHANGED <<artifacts, drafted>>
       ELSE LET html == HtmlName(drafted + 1)
            IN /\ artifacts' = writeDraft(rotateEmailFiles(artifacts), html)
               /\ drafted' = drafted + 1
               /\ ops' = [ops EXCEPT ![p] =
                     logEvent([@ EXCEPT !.pc = "draft_r",
                                 !.ret = [NoRet EXCEPT !.ok = TRUE,
                                            !.code = 200, !.html = html]],
                              "author-agent", "progress",
                              "Generated draft HTML", "")]
    /\ UNCHANGED <<meta, config, sink, now, tally, delivered, reviewed, launched>>

(***************************************************************************)
(* The review service, and submitHitlAndHandle.                            *)
(***************************************************************************)
\* what the review service may answer; ok = FALSE: fetch threw
HitlResponses ==
    { [NoRet EXCEPT !.ok = TRUE, !.code = 200],
      [NoRet EXCEPT !.ok = TRUE, !.code = 202, !.status = "pending"],
      [NoRet EXCEPT !.ok = TRUE, !.code = 200, !.status = "no-hitl"],
      [NoRet EXCEPT !.ok = TRUE, !.code = 200, !.status = "skip",
                    !.info = "why"],
      [NoRet EXCEPT !.ok = TRUE, !.code = 200, !.error = "bad"],
      [NoRet EXCEPT !.ok = TRUE, !.code = 500, !.info = "why"],
      NoRet }

\* the review service answers (or the connection fails)
HitlRespond(p, r) ==
    /\ ops[p].pc = "hitl"
    /\ r \in HitlResponses
    /\ ops' = [ops EXCEPT ![p].pc = "hitl_r", ![p].ret = r]
    /\ UNCHANGED <<meta, config, sink, artifacts, now, drafted, tally, delivered,
                   reviewed, launched>>

\* `${statusCode} error=.. status=.. info=..` of the reason and of the note
hitlDetail(r) ==
    ToString(r.code)
    \o (IF r.error # "" THEN " error=" \o r.error ELSE "")
    \o (IF r.status # "" THEN " status=" \o r.status ELSE "")
    \o (IF r.info # "" THEN " info=" \o r.info ELSE "")

\* hitlResult.error || hitlResult.hitlInfo || hitlResult.hitlStatus
resultDetail(r) == OrStr(r.error, OrStr(r.info, r.status))

\* the note abortInstance is given by submitHitlAndHandle
submitFailedNote(r) == "HITL submission failed: " \o hitlDetail(r)

\* callAuthorAgent returned to runFlow
CsAfterAuthor(p) ==
    /\ ops[p].pc = "draft_r"
    /\ ops[p].kind = "send"
    /\ IF ~ops[p].ret.ok
       THEN /\ ops' = [ops EXCEPT ![p] = composeCatch(@, "author_agent_error")]
            /\ UNCHANGED <<tally, reviewed>>
       ELSE /\ ops' = [ops EXCEPT ![p] =
                  callHitlAgent([@ EXCEPT !.pc = "hitl",
                                          !.html = ops[p].ret.html],
                                ops[p].ret.html, ops[p].nextGen - 1)]
            /\ tally' = count("review")
            /\ reviewed' = reviewed \cup {ops[p].ret.html}
    /\ UNCHANGED <<meta, config, sink, artifacts, now, drafted, delivered, launched>>

\* submitHitlAndHandle after callHitlAgent, in runFlow (abortOnFail)
CsAfterHitl(p) ==
    /\ ops[p].pc = "hitl_r"
    /\ ops[p].kind = "send"
    /\ LET r == ops[p].ret
       IN ops' = [ops EXCEPT ![p] =
            IF ~r.ok THEN composeCatch(@, "fetch failed")
            ELSE IF hitlAccepted(r)
            THEN logEvent([@ EXCEPT !.pc = "sh_acc1"], "compose", "progress",
                          "HITL submission accepted", "")
            ELSE logEvent([@ EXCEPT !.pc = "sh_rej1"], "compose", "record",
                          "HITL submission rejected", hitlDetail(r))]
    /\ UNCHANGED <<meta, config, sink, artifacts, now, drafted, tally, delivered,
                   reviewed, launched>>

\* abortInstance of submitHitlAndHandle
ShAbort(p) ==
    /\ ops[p].pc = "sh_rej1"
    /\ meta' = abortInstance(meta, now)
    /\ ops' = [ops EXCEPT ![p] =
          logEvent([@ EXCEPT !.pc = "sh_rej2"], "compose", "state_change",
                   "state - abort", submitFailedNote(ops[p].ret))]
    /\ UNCHANGED <<config, sink, artifacts, now, drafted, tally, delivered,
                   reviewed, launched>>

\* updateMeta({status: 'wait'}) of submitHitlAndHandle
ShWait(p) ==
    /\ ops[p].pc = "sh_acc1"
    /\ meta' = setWait(meta)
    /\ ops' = [ops EXCEPT ![p] =
          logEvent([@ EXCEPT !.pc = "sh_acc2"], "compose", "state_change",
                   "state - wait", "")]
    /\ UNCHANGED <<config, sink, artifacts, now, drafted, tally, delivered,
                   reviewed, launched>>

\* submitHitlAndHandle returns; runFlow returns its result, the modify
\* branch returns
ShReturn(p) ==
    /\ ops[p].pc \in {"sh_rej2", "sh_acc2"}
    /\ ops' = [ops EXCEPT ![p] =
          IF ops[p].kind = "send"
          THEN [@ EXCEPT !.pc = "done",
                  !.resp = IF ops[p].async THEN @
                           ELSE IF ops[p].pc = "sh_acc2"
                           THEN sendJson(200, "result", "")
                           ELSE sendJson(200, "hitl_submit_failed",
                                         resultDetail(ops[p].ret))]
          ELSE handlerEnd(@, "")]
    /\ UNCHANGED <<meta, config, sink, artifacts, now, drafted, tally, delivered,
                   reviewed, launched>>

\* the logEvent of the catch of handleComposeSend returned
CsError(p) ==
    /\ ops[p].pc = "cs_err"
    /\ ops' = [ops EXCEPT ![p].pc = "done",
                 ![p].resp = IF ops[p].async THEN @
                             ELSE sendJson(502, "compose_failed", ops[p].err)]
    /\ UNCHANGED <<meta, config, sink, artifacts, now, drafted, tally, delivered,
                   reviewed, launched>>


(***************************************************************************)
(* handleAbort.                                                            *)
(***************************************************************************)
\* bodies of POST /compose/abort
AbortRequests == {[username |-> u] : u \in {"alice", ""}}

\* from the request to the await of abortInstance's logEvent
HandleAbort(p, req, k) ==
    /\ canStart(p, k)
    /\ LET op == [IdleOp EXCEPT !.kind = "abort", !.username = req.username]
       IN IF req.username = ""
          THEN /\ ops' = receive(p, [op EXCEPT !.pc = "done",
                            !.resp = sendJson(400, "username_required", "")])
               /\ UNCHANGED meta
          ELSE /\ meta' = abortInstance(meta, now)
               /\ ops' = receive(p,
                     logEvent([op EXCEPT !.pc = "ab_wait"], "compose",
                              "state_change", "state - abort", ""))
    /\ UNCHANGED <<config, sink, artifacts, now, drafted, tally, delivered,
                   reviewed, launched>>

\* abortInstance's logEvent returned
AbortDone(p) ==
    /\ ops[p].pc = "ab_wait"
    /\ ops' = [ops EXCEPT ![p].pc = "done",
                          ![p].resp = sendJson(200, "ok", "")]
    /\ UNCHANGED <<meta, config, sink, artifacts, now, drafted, tally, delivered,
                   reviewed, launched>>

(***************************************************************************)
(* handleHitlCallback.                                                     *)
(***************************************************************************)
\* String.prototype.toLowerCase on the strings the model uses
toLowerCase(s) ==
    CASE s = "Approve" -> "approve"
      [] OTHER -> s

\* bodies of POST /compose/hitl-callback
CallbackRequests ==
    { b \in [response : {"approve", "Approve", "reject", "modify", "bogus",
                         ""},
             result : {"", "approve"},
             information : {"", "too long"},
             instructions : {"", " Make it shorter "},
             username : {"", "rev"},
             async : BOOLEAN] :
        /\ b.instructions # "" => b.response = "modify"
        /\ b.information # "" => b.response \in {"reject", "modify"}
        /\ b.information # "" => b.instructions = "" /\ ~b.async
        /\ b.username # "" => b.response = "approve" /\ ~b.async
        /\ b.response \in {"Approve", ""} => ~b.async
        /\ b.result # "" => b.response \in {"", "reject"} /\ ~b.async
                            /\ b.information = "" }

\* the handler up to the await of its first logEvent
handlerStart(op) ==
    logEvent([op EXCEPT !.pc = "cb_recv"], "compose", "record",
             "hitl-callback: " \o OrStr(op.action, "unknown"),
             op.information)

\* from the request to the 202 (async) or into the handler (sync)
HandleHitlCallback(p, b, k) ==
    /\ canStart(p, k)
    /\ LET op == [IdleOp EXCEPT
                    !.kind = "callback", !.async = b.async,
                    !.action = toLowerCase(OrStr(b.response, b.result)),
                    !.information = b.information,
                    !.instructions = b.instructions,
                    !.username = OrStr(Trim(b.username), "unknown")]
       IN ops' = receive(p,
            IF b.async
            THEN [op EXCEPT !.pc = "cb_sched",
                            !.resp = sendJson(202, "accepted", "")]
            ELSE handlerStart(op))
    /\ UNCHANGED <<meta, config, sink, artifacts, now, drafted, tally, delivered,
                   reviewed, launched>>

\* the setImmediate callback of the async branch
CbRun(p) ==
    /\ ops[p].pc = "cb_sched"
    /\ ops' = [ops EXCEPT ![p] = handlerStart(@)]
    /\ UNCHANGED <<meta, config, sink, artifacts, now, drafted, tally, delivered,
                   reviewed, launched>>

\* the guidance handed on without its "[Key Instruction]" wrapping
newInstr_Raw(instructions, information) ==
    Trim(OrStr(instructions, information))

\* `[Key Instruction] ...` of the modify branch
newInstr(instructions, information) ==
    LET rawInstr == OrStr(instructions, information)
    IN IF Trim(rawInstr) # "" THEN "[Key Instruction] " \o Trim(rawInstr)
       ELSE ""

\* the approve branch up to the await of callEmailAgent
approveBranch(p, merged) ==
    /\ ops' = [ops EXCEPT ![p] =
          callEmailAgent([@ EXCEPT !.pc = "send", !.merged = merged,
                                   !.html = readLatestEmailHtml],
                         readLatestEmailHtml, merged)]
    /\ tally' = count("deliver")
    /\ UNCHANGED meta

\* the reject branch dropping the human's note
rejectBranch_NoNote(p) ==
    /\ meta' = finishAs(meta, "abort", now)
    /\ ops' = [ops EXCEPT ![p] =
          handlerEnd(finishAsEvent(@, "abort", "hitl reject"), "")]
    /\ UNCHANGED tally

\* the reject branch
rejectBranch(p) ==
    /\ meta' = finishAs(meta, "abort", now)
    /\ ops' = [ops EXCEPT ![p] =
          handlerEnd(finishAsEvent(@, "abort",
                                   OrStr(ops[p].information, "hitl reject")),
                     "")]
    /\ UNCHANGED tally

\* the modify branch up to the await of its logEvent
modifyBranch(p, merged) ==
    /\ meta' = incGenCountActive(meta)
    /\ ops' = [ops EXCEPT ![p] =
          logEvent([@ EXCEPT !.pc = "md_pre", !.merged = merged,
                      !.nextGen = meta'.gen_count,
                      !.base_html = readLatestEmailHtml,
                      !.newInstr =
                          newInstr(ops[p].instructions, ops[p].information)],
                   "compose", "record", "Calling LLM to re-generate email",
                   "")]
    /\ UNCHANGED tally

\* an unknown outcome handled as a failure of the instance
unknownResult_Aborts(p) ==
    /\ meta' = finishAs(meta, "abort", now)
    /\ ops' = [ops EXCEPT ![p] = handlerEnd(@, "unknown_hitl_result")]
    /\ UNCHANGED tally

\* throw new Error('unknown_hitl_result')
unknownResult(p) ==
    /\ ops' = [ops EXCEPT ![p] = handlerEnd(@, "unknown_hitl_result")]
    /\ UNCHANGED <<meta, tally>>

\* the handler after its first logEvent, up to its next await or its end
CbHandle(p) ==
    /\ ops[p].pc = "cb_recv"
    /\ LET merged == mergeConfig(config, EmptyPayload)
           action == ops[p].action
       IN CASE action = "approve" -> approveBranch(p, merged)
            [] action = "reject" -> rejectBranch(p)
            [] action = "modify" -> modifyBranch(p, merged)
            [] OTHER -> unknownResult(p)
    /\ UNCHANGED <<config, sink, artifacts, now, drafted, delivered, reviewed,
                   launched>>

\* the modify branch calls callAuthorAgent
MdCallAuthor(p) ==
    /\ ops[p].pc = "md_pre"
    /\ ops' = [ops EXCEPT ![p] =
          callAuthorAgent([@ EXCEPT !.pc = "draft"], ops[p].newInstr,
                          ops[p].base_html)]
    /\ tally' = count("draft")
    /\ UNCHANGED <<meta, config, sink, artifacts, now, drafted, delivered,
                   reviewed, launched>>

\* the modify branch leaving the record as it is when drafting fails
MdAfterAuthor_NoAbort(p) ==
    /\ ops[p].pc = "draft_r"
    /\ ops[p].kind = "callback"
    /\ IF ~ops[p].ret.ok
       THEN /\ ops' = [ops EXCEPT ![p] = modifyCatch(@, "author_agent_error")]
            /\ UNCHANGED <<meta, tally, reviewed>>
       ELSE /\ ops' = [ops EXCEPT ![p] =
                  callHitlAgent([@ EXCEPT !.pc = "hitl",
                                          !.html = ops[p].ret.html],
                                ops[p].ret.html, ops[p].nextGen - 1)]
            /\ tally' = count("review")
            /\ reviewed' = reviewed \cup {ops[p].ret.html}
            /\ UNCHANGED meta
    /\ UNCHANGED <<config, sink, artifacts, now, drafted, delivered, launched>>

\* callAuthorAgent returned to the modify branch
MdAfterAuthor(p) ==
    /\ ops[p].pc = "draft_r"
    /\ ops[p].kind = "callback"
    /\ IF ~ops[p].ret.ok
       THEN /\ meta' = finishAs(meta, "abort", now)
            /\ ops' = [ops EXCEPT ![p] = modifyCatch(@, "author_agent_error")]
            /\ UNCHANGED <<tally, reviewed>>
       ELSE /\ ops' = [ops EXCEPT ![p] =
                  callHitlAgent([@ EXCEPT !.pc = "hitl",
                                          !.html = ops[p].ret.html],
                                ops[p].ret.html, ops[p].nextGen - 1)]
            /\ tally' = count("review")
            /\ reviewed' = reviewed \cup {ops[p].ret.html}
            /\ UNCHANGED meta
    /\ UNCHANGED <<config, sink, artifacts, now, drafted, delivered, launched>>

\* the note abortInstance is given by the modify branch
resubmitFailedNote(r) ==
    "HITL resubmit failed: " \o ToString(r.code)
    \o (IF resultDetail(r) # "" THEN " detail=" \o resultDetail(r) ELSE "")

\* submitHitlAndHandle after callHitlAgent, in the modify branch
\* (abortOnFail: false), up to the await of abortInstance when not accepted
MdAfterHitl(p) ==
    /\ ops[p].pc = "hitl_r"
    /\ ops[p].kind = "callback"
    /\ LET r == ops[p].ret
       IN IF ~r.ok
          THEN /\ meta' = finishAs(meta, "abort", now)
               /\ ops' = [ops EXCEPT ![p] = modifyCatch(@, "fetch failed")]
          ELSE IF hitlAccepted(r)
          THEN /\ ops' = [ops EXCEPT ![p] =
                     logEvent([@ EXCEPT !.pc = "sh_acc1"], "compose",
                              "progress", "HITL submission accepted", "")]
               /\ UNCHANGED meta
          ELSE /\ meta' = abortInstance(meta, now)
               /\ ops' = [ops EXCEPT ![p] =
                     logEvent([@ EXCEPT !.pc = "md_rej"], "compose",
                              "state_change", "state - abort",
                              resubmitFailedNote(r))]
    /\ UNCHANGED <<config, sink, artifacts, now, drafted, tally, delivered,
                   reviewed, launched>>

\* throw new Error('HITL resubmit failed ..'), into the catch
MdResubmitFailed(p) ==
    /\ ops[p].pc = "md_rej"
    /\ meta' = finishAs(meta, "abort", now)
    /\ ops' = [ops EXCEPT ![p] = modifyCatch(@, "HITL resubmit failed")]
    /\ UNCHANGED <<config, sink, artifacts, now, drafted, tally, delivered,
                   reviewed, launched>>


(***************************************************************************)
(* send-agent: handleSend answering a callEmailAgent.                      *)
(***************************************************************************)
\* handleSend's validation without its check of html
handleSendInvalid_AnyHtml(c) ==
    IF ~validateInstanceId(c.instance_id) THEN "instance_id_required"
    ELSE IF c.username = "" THEN "username_required"
    ELSE IF c.subject = "" THEN "subject_required"
    ELSE IF ~requireRecipients(c.to, c.cc, c.bcc) THEN "recipients_required"
    ELSE ""

\* the reason code of handleSend's validation, "" when the request is valid
handleSendInvalid(c) ==
    IF ~validateInstanceId(c.instance_id) THEN "instance_id_required"
    ELSE IF c.username = "" THEN "username_required"
    ELSE IF c.html = "" THEN "html_required"
    ELSE IF c.subject = "" THEN "subject_required"
    ELSE IF ~requireRecipients(c.to, c.cc, c.bcc) THEN "recipients_required"
    ELSE ""

\* the mail provider accepts the mail or fails; or send-agent is down
SendOutcomes == {"sent", "provider_error", "down"}

\* c is the request callEmailAgent sent: the last request of the operation
handleSend(p, out) ==
    /\ ops[p].pc = "send"
    /\ out \in SendOutcomes
    /\ LET c == ops[p].calls[Len(ops[p].calls)]
           reason == handleSendInvalid(c)
           op == [ops[p] EXCEPT !.pc = "send_r"]
       IN IF out = "down"
          THEN /\ ops' = [ops EXCEPT ![p] = [op EXCEPT !.ret = NoRet]]
               /\ UNCHANGED <<artifacts, delivered>>
          ELSE IF reason # ""
          THEN /\ ops' = [ops EXCEPT ![p] =
                     [op EXCEPT !.ret = [NoRet EXCEPT !.code = 400,
                                                      !.error = reason]]]
               /\ UNCHANGED <<artifacts, delivered>>
          ELSE LET sending == logEvent(op, "send-agent", "progress",
                                       "Sending email", "")
               IN /\ artifacts' = writeDraft(artifacts, c.html)
                  /\ IF out = "sent"
                     THEN /\ delivered' = delivered + 1
                          /\ ops' = [ops EXCEPT ![p] =
                                logEvent([sending EXCEPT
                                            !.ret = [NoRet EXCEPT !.ok = TRUE,
                                                       !.code = 200]],
                                         "send-agent", "state_change",
                                         "Email sent", "")]
                     ELSE /\ ops' = [ops EXCEPT ![p] =
                                [sending EXCEPT
                                   !.ret = [NoRet EXCEPT !.code = 502,
                                              !.error = "provider_error"]]]
                          /\ UNCHANGED delivered
    /\ UNCHANGED <<meta, config, sink, now, drafted, tally, reviewed, launched>>

\* the approve branch finishing whatever callEmailAgent returned
CbAfterSend_IgnoresFailure(p) ==
    /\ ops[p].pc = "send_r"
    /\ meta' = finishAs(meta, "finished", now)
    /\ ops' = [ops EXCEPT ![p] =
          handlerEnd(finishAsEvent(@, "finished", "hitl approve"), "")]
    /\ UNCHANGED <<config, sink, artifacts, now, drafted, tally, delivered,
                   reviewed, launched>>

\* callEmailAgent returned to the approve branch
CbAfterSend(p) ==
    /\ ops[p].pc = "send_r"
    /\ LET status == IF ops[p].ret.ok THEN "finished" ELSE "abort"
       IN /\ meta' = finishAs(meta, status, now)
          /\ ops' = [ops EXCEPT ![p] =
                IF ops[p].ret.ok
                THEN handlerEnd(finishAsEvent(@, "finished", "hitl approve"),
                                "")
                ELSE handlerEnd(
                        finishAsEvent(@, "abort",
                            "email send failed: email_agent_error"),
                        "email_agent_error")]
    /\ UNCHANGED <<config, sink, artifacts, now, drafted, tally, delivered,
                   reviewed, launched>>

(***************************************************************************)
(* The clock.                                                              *)
(***************************************************************************)
Tick ==
    /\ now < MaxTime
    /\ now' = now + 1
    /\ UNCHANGED <<meta, config, sink, artifacts, ops, drafted, tally, delivered,
                   reviewed, launched>>

(***************************************************************************)
(* Specifications.  Under Spec up to MaxConc requests are handled at the   *)
(* same time; under SeqSpec a request arrives only when the handling of    *)
(* the one before has ended.                                               *)
(***************************************************************************)
\* a request arrives, when fewer than k are in flight
Receive(k) ==
    \E p \in Procs :
        \/ \E req \in SendRequests : ComposeSend(p, req, k)
        \/ \E b \in CallbackRequests : HandleHitlCallback(p, b, k)
        \/ \E req \in AbortRequests : HandleAbort(p, req, k)

\* an operation in flight, or a service it called, takes its next step
Step ==
    \E p \in Procs :
        \/ CsMarkActive(p)
        \/ CsDispatch(p)
        \/ CsRunFlow(p)
        \/ CsCallAuthor(p)
        \/ \E out \in AuthorOutcomes : handleGenerate(p, out)
        \/ CsAfterAuthor(p)
        \/ \E r \in HitlResponses : HitlRespond(p, r)
        \/ CsAfterHitl(p)
        \/ ShAbort(p)
        \/ ShWait(p)
        \/ ShReturn(p)
        \/ CsError(p)
        \/ AbortDone(p)
        \/ CbRun(p)
        \/ CbHandle(p)
        \/ MdCallAuthor(p)
        \/ MdAfterAuthor(p)
        \/ MdAfterHitl(p)
        \/ MdResubmitFailed(p)
        \/ \E out \in SendOutcomes : handleSend(p, out)
        \/ CbAfterSend(p)

Next == Receive(MaxConc) \/ Step \/ Tick

Spec == Init /\ [][Next]_vars

SeqNext == Receive(1) \/ Step \/ Tick

SeqSpec == Init /\ [][SeqNext]_vars


(***************************************************************************)
(* Properties.  Unless said otherwise they are stated of SeqSpec: of one   *)
(* request handled at a time, where `before` is the record the operation   *)
(* started from and meta is the record it has left.                        *)
(***************************************************************************)
\* operation op has sent a request to service svc
HasCall(op, svc) == \E i \in 1..Len(op.calls) : op.calls[i].svc = svc

\* the requests operation op has sent to service svc
CallsTo(op, svc) ==
    {op.calls[i] : i \in {j \in 1..Len(op.calls) : op.calls[j].svc = svc}}

\* operation op has posted a state_change event for status st with this note
HasStateEvent(op, st, note) ==
    \E i \in 1..Len(op.events) :
        /\ op.events[i].service = "compose"
        /\ op.events[i].event_type = "state_change"
        /\ op.events[i].message = "state - " \o st
        /\ op.events[i].note = note

\* the review submission of op was accepted: the answer arrived with a
\* success code, no error in the body and a status other than the sentinels
ReviewAccepted(op) ==
    /\ op.ret.ok
    /\ op.ret.code \in {200, 202}
    /\ op.ret.error = ""
    /\ op.ret.status \notin {"no-hitl", "skip"}

\* a new-send that has ended and whose draft was submitted for review
SendReviewed(op) ==
    op.kind = "send" /\ op.pc = "done" /\ HasCall(op, "review")

\* C1: a valid new-send whose drafting call succeeded has ended with status
\* wait when its review submission was accepted, and otherwise with status
\* abort and the rejection detail as the note of the abort.
C1_SendEndsWaitOrAbort ==
    \A p \in Procs :
        SendReviewed(ops[p]) =>
            IF ReviewAccepted(ops[p]) THEN meta.status = "wait"
            ELSE /\ meta.status = "abort"
                 /\ HasStateEvent(ops[p], "abort",
                                  submitFailedNote(ops[p].ret))

\* the case of C1 the code does not meet: the review call got no answer
C1_NoAnswerLeftActive ==
    \E p \in Procs :
        /\ SendReviewed(ops[p])
        /\ ~ops[p].ret.ok
        /\ meta.status = "active"

\* C1 where the review service answered: wait on acceptance, abort with the
\* detail of the answer otherwise
C1_AnsweredEndsWaitOrAbort ==
    \A p \in Procs :
        SendReviewed(ops[p]) /\ ops[p].ret.ok =>
            IF ReviewAccepted(ops[p]) THEN meta.status = "wait"
            ELSE /\ meta.status = "abort"
                 /\ HasStateEvent(ops[p], "abort",
                                  submitFailedNote(ops[p].ret))

\* an approve callback that found the instance in wait and has ended
ApproveOfWaitDone(op) ==
    /\ op.kind = "callback" /\ op.action = "approve" /\ op.pc = "done"
    /\ op.before.status = "wait"

\* C2: an approve callback on an instance in wait ends with status finished
\* if and only if the delivery call succeeded and otherwise with abort,
\* never with wait or active; a synchronous caller is given the error of a
\* failed delivery.
C2_ApproveFinishesIffDelivered ==
    \A p \in Procs :
        ApproveOfWaitDone(ops[p]) =>
            /\ HasCall(ops[p], "deliver")
            /\ meta.status = "finished" <=> ops[p].ret.ok
            /\ ~ops[p].ret.ok => meta.status = "abort"
            /\ meta.status \notin {"wait", "active"}
            /\ ~ops[p].ret.ok /\ ~ops[p].async =>
                  /\ ops[p].resp.code = 400
                  /\ ops[p].resp.body = "hitl_callback_failed"
                  /\ ops[p].resp.detail = "email_agent_error"

C2_Witness ==
    \E p \in Procs :
        /\ ApproveOfWaitDone(ops[p])
        /\ ops[p].ret.ok
        /\ meta.status = "finished"

\* the other case of C2: delivery failed, seen by a synchronous caller
C2_WitnessFailed ==
    \E p \in Procs :
        /\ ApproveOfWaitDone(ops[p])
        /\ ~ops[p].ret.ok /\ ~ops[p].async
        /\ meta.status = "abort"

\* C3: an approve callback for an instance that has reached finished does
\* not invoke delivery, and delivery succeeds at most once per instance.
C3_NoSecondDelivery ==
    /\ delivered <= 1
    /\ \A p \in Procs :
          /\ ops[p].kind = "callback" /\ ops[p].action = "approve"
          /\ ops[p].before.status = "finished"
          => ~HasCall(ops[p], "deliver")

\* C4: a new-send whose drafting call failed, synchronous or detached, has
\* ended with status abort.
C4_DraftFailureAborts ==
    \A p \in Procs :
        /\ ops[p].kind = "send" /\ ops[p].pc = "done"
        /\ HasCall(ops[p], "draft") /\ ops[p].err = "author_agent_error"
        => meta.status = "abort"


\* a review callback with this (lower-cased) outcome
Callback(op, action) == op.kind = "callback" /\ op.action = action

\* C5: a reject callback has ended with status abort, with the human's note
\* (when one was given) as the note of the abort, and has sent no request to
\* the drafting, review or delivery service.
C5_RejectAborts ==
    \A p \in Procs :
        Callback(ops[p], "reject") /\ ops[p].pc = "done" =>
            /\ meta.status = "abort"
            /\ ops[p].calls = <<>>
            /\ ops[p].information # "" =>
                  HasStateEvent(ops[p], "abort", ops[p].information)

C5_Witness ==
    \E p \in Procs :
        /\ Callback(ops[p], "reject") /\ ops[p].pc = "done"
        /\ ops[p].before.status = "wait"
        /\ ops[p].information = "too long"
        /\ meta.status = "abort"

\* a review callback whose outcome is none of approve, reject, modify
UnknownOutcome(op) ==
    op.kind = "callback" /\ op.action \notin {"approve", "reject", "modify"}

\* C6: while and after a callback with an unrecognized outcome is handled,
\* the stored record is the one the callback found, and the callback has
\* sent no request to a service.
C6_UnknownOutcomeNoChange ==
    \A p \in Procs :
        UnknownOutcome(ops[p]) /\ ops[p].pc # "idle" =>
            /\ meta = ops[p].before
            /\ ops[p].calls = <<>>

C6_Witness ==
    \E p \in Procs :
        /\ UnknownOutcome(ops[p]) /\ ops[p].pc = "done"
        /\ ops[p].action = "bogus"
        /\ ops[p].err = "unknown_hitl_result"
        /\ ops[p].before.status = "wait"
        /\ meta.status = "wait"

\* a modify callback that has ended after its drafting call failed
ModifyDraftFailed(op) ==
    /\ Callback(op, "modify") /\ op.pc = "done"
    /\ HasCall(op, "draft") /\ op.err = "author_agent_error"

\* C7: a modify callback whose drafting call failed has ended with status
\* abort and has made no review submission.
C7_ModifyDraftFailureAborts ==
    \A p \in Procs :
        ModifyDraftFailed(ops[p]) =>
            /\ meta.status = "abort"
            /\ ~HasCall(ops[p], "review")

C7_Witness ==
    \E p \in Procs :
        /\ ModifyDraftFailed(ops[p])
        /\ ops[p].before.status = "wait"
        /\ meta.status = "abort"

\* C8: from its gen_count increment on, so at its review submission, a
\* new-send has raised gen_count by exactly 1; a new-send of a fresh
\* instance that was accepted for review leaves gen_count = 1 and was
\* submitted with loopIndex 0 (loop 1); a modify cycle that was accepted
\* leaves gen_count raised by exactly 1.
C8_GenCountByOne ==
    \A p \in Procs :
        /\ ops[p].kind = "send" /\ ops[p].nextGen > 0 =>
              meta.gen_count = ops[p].before.gen_count + 1
        /\ ops[p].kind = "send" /\ HasCall(ops[p], "review") =>
              meta.gen_count = ops[p].before.gen_count + 1
        /\ SendReviewed(ops[p]) /\ ~ops[p].before.exists
           /\ ReviewAccepted(ops[p]) =>
              /\ meta.gen_count = 1
              /\ \A c \in CallsTo(ops[p], "review") : c.loop - 1 = 0
        /\ Callback(ops[p], "modify") /\ ops[p].pc = "done"
           /\ HasCall(ops[p], "review") /\ ReviewAccepted(ops[p]) =>
              meta.gen_count = ops[p].before.gen_count + 1

\* a modify cycle accepted after an accepted new-send: gen_count 2
C8_Witness ==
    \E p \in Procs :
        /\ Callback(ops[p], "modify") /\ ops[p].pc = "done"
        /\ ReviewAccepted(ops[p])
        /\ ops[p].before.status = "wait"
        /\ ops[p].before.gen_count = 1
        /\ meta.gen_count = 2

\* the first new-send of an instance, accepted for review
C8_WitnessFresh ==
    \E p \in Procs :
        /\ SendReviewed(ops[p]) /\ ~ops[p].before.exists
        /\ ReviewAccepted(ops[p])
        /\ meta.gen_count = 1

\* the instruction a modify callback is to give the drafting service
WrappedGuidance(op) ==
    CASE op.instructions = " Make it shorter " ->
            "[Key Instruction] Make it shorter"
      [] op.instructions = "" /\ op.information = "too long" ->
            "[Key Instruction] too long"
      [] OTHER -> ""

\* C9: a modify callback raises gen_count by one and sets status active;
\* its drafting request carries the latest drafted HTML as the prior
\* document and the wrapped guidance as instruction; its review submission
\* carries the new draft with loopIndex = gen_count - 1; it ends with status
\* wait if the submission was accepted and with abort if it was not.
C9_ModifyCycle ==
    \A p \in Procs :
        Callback(ops[p], "modify") =>
            /\ ops[p].pc = "md_pre" =>
                  /\ meta.status = "active"
                  /\ meta.gen_count = ops[p].before.gen_count + 1
            /\ ops[p].pc = "draft" =>
                  /\ ops[p].calls[1].svc = "draft"
                  /\ ops[p].calls[1].base_html = readLatestEmailHtml
                  /\ ops[p].calls[1].instructions = WrappedGuidance(ops[p])
            /\ ops[p].pc = "hitl" =>
                  /\ ops[p].calls[2].svc = "review"
                  /\ ops[p].calls[2].html = readLatestEmailHtml
                  /\ ops[p].calls[2].html # ops[p].calls[1].base_html
                  /\ ops[p].calls[2].loop - 1 = meta.gen_count - 1
            /\ ops[p].pc = "done" /\ HasCall(ops[p], "review") =>
                  IF ReviewAccepted(ops[p]) THEN meta.status = "wait"
                  ELSE meta.status = "abort"

\* the scenario of the specification: the second draft of an instance,
\* asked for with "Make it shorter", is submitted with loopIndex 1
C9_Witness ==
    \E p \in Procs :
        /\ Callback(ops[p], "modify") /\ ops[p].pc = "hitl"
        /\ ops[p].calls[1].base_html = "H1"
        /\ ops[p].calls[1].instructions = "[Key Instruction] Make it shorter"
        /\ ops[p].calls[2].html = "H2"
        /\ ops[p].calls[2].loop = 2
        /\ meta.gen_count = 2

\* C10: an approve callback of an instance launched by a valid new-send
\* sends delivery the subject, recipients and sender of the configuration
\* merged by that new-send, and the latest drafted HTML.
C10_DeliveryUsesLaunchConfig ==
    \A p \in Procs :
        Callback(ops[p], "approve") /\ launched # NoMerged =>
            \A c \in CallsTo(ops[p], "deliver") :
                /\ c.subject = launched.subject
                /\ c.to = launched.to
                /\ c.cc = launched.cc
                /\ c.bcc = launched.bcc
                /\ c.sender_email = launched.sender_email
                /\ c.sender_name = launched.sender_name
                /\ ops[p].pc = "send" => c.html = readLatestEmailHtml

\* the changes of status an instance may make
AllowedStatusSteps ==
    { <<"active", "wait">>, <<"active", "abort">>, <<"wait", "active">>,
      <<"wait", "finished">>, <<"wait", "abort">> }

\* C11: every change of the status of an existing record follows
\* active->wait, active->abort, wait->active, wait->finished or wait->abort;
\* in particular no step changes a status that is finished or abort.
C11_StatusSteps ==
    [][ meta.status # "" /\ meta'.status # meta.status =>
            <<meta.status, meta'.status>> \in AllowedStatusSteps ]_vars

\* an abort request that was accepted (it named a user)
AbortAccepted(op) ==
    op.kind = "abort" /\ op.pc \in {"ab_wait", "done"} /\ op.username # ""

\* C12: an abort request on an instance in active or wait has set status
\* abort and stamped finished_at; an abort request on an instance that was
\* already in abort has left the stored record, finished_at included, as it
\* found it.
C12_AbortIdempotent ==
    \A p \in Procs :
        AbortAccepted(ops[p]) =>
            /\ ops[p].before.status \in {"active", "wait"} =>
                  /\ meta.status = "abort"
                  /\ meta.finished_at \in 1..now
            /\ ops[p].before.status = "abort" => meta = ops[p].before

\* the half of C12 the code meets: abort from active or wait
C12_AbortFromLive ==
    \A p \in Procs :
        AbortAccepted(ops[p]) /\ ops[p].before.status \in {"active", "wait"} =>
            /\ meta.status = "abort"
            /\ meta.finished_at \in 1..now

\* the reason codes of the validation of a new-send
SendReasonCodes ==
    { "username_required", "instructions_required",
      "subject_missing_after_merge", "recipients_missing_after_merge" }

\* none of the addresses of s is non-empty
NoAddress(s) == \A i \in 1..Len(s) : s[i] = ""

\* a new-send request that must be rejected: no username, neither
\* instructions nor a regeneration base, or no subject or no non-empty
\* recipient after merging the request over the configuration
InvalidSend(op) ==
    /\ op.kind = "send"
    /\ \/ op.username = ""
       \/ op.instructions = "" /\ op.base_html = ""
       \/ op.merged.subject = ""
       \/ NoAddress(op.merged.to) /\ NoAddress(op.merged.cc)
          /\ NoAddress(op.merged.bcc)

C16_NoRecordWithoutSend ==
    \A p \in Procs :
        /\ ops[p].kind \in {"callback", "abort"}
        /\ ~ops[p].before.exists
        => /\ ~meta.exists
           /\ ops[p].pc = "done" => ops[p].resp.code >= 400

\* C17: a callback with an unrecognized outcome is never answered as
\* accepted: the answer it is given, synchronous or detached, is a client
\* error with a reason code.
C17_UnknownOutcomeIsClientError ==
    \A p \in Procs :
        UnknownOutcome(ops[p]) /\ ops[p].resp # NoResp =>
            /\ ops[p].resp.code \in 400..499
            /\ ops[p].resp.body # ""
            /\ ops[p].resp.body # "accepted"

\* the half of C17 the code meets: the synchronous caller
C17_SyncUnknownOutcomeIsClientError ==
    \A p \in Procs :
        UnknownOutcome(ops[p]) /\ ~ops[p].async /\ ops[p].pc = "done" =>
            /\ ops[p].resp.code = 400
            /\ ops[p].resp.body = "hitl_callback_failed"
            /\ ops[p].resp.detail = "unknown_hitl_result"

\* an operation that has ended after its review call got no HTTP response
ReviewCallFailed(op) ==
    /\ op.pc = "done" /\ op.calls # <<>>
    /\ op.calls[Len(op.calls)].svc = "review"
    /\ op.ret = NoRet

\* C18: a new-send or a modify callback whose review call got no HTTP
\* response has ended with status abort.
C18_ReviewTransportFailureAborts ==
    \A p \in Procs : ReviewCallFailed(ops[p]) => meta.status = "abort"

\* the half of C18 the code meets: the modify path
C18_ModifyTransportFailureAborts ==
    \A p \in Procs :
        ReviewCallFailed(ops[p]) /\ ops[p].kind = "callback" =>
            meta.status = "abort"

\* what a stored record says, its two time stamps reduced to whether they
\* are set
Shown(m) ==
    [status |-> m.status, gen_count |-> m.gen_count, owner |-> m.owner,
     started |-> m.started_at # 0, finished |-> m.finished_at # 0]

\* The record an ended operation leaves when it finds record b (shown), as
\* a function of its request without the async flag and of the answers of
\* the services it called.
OutcomeFrom(op, b) ==
    LET reviewed2 == Len(op.calls) = 2 /\ op.ret.ok
    IN CASE InvalidSend(op) -> b
         [] op.kind = "send" /\ ~InvalidSend(op) ->
              [status |-> IF reviewed2
                          THEN IF ReviewAccepted(op) THEN "wait" ELSE "abort"
                          ELSE "active",
               gen_count |-> b.gen_count + 1,
               owner |-> IF b.owner = "" THEN op.username ELSE b.owner,
               started |-> TRUE,
               finished |-> b.finished \/ (reviewed2 /\ ~ReviewAccepted(op))]
         [] Callback(op, "approve") ->
              [b EXCEPT !.status = IF op.ret.ok THEN "finished" ELSE "abort",
                        !.finished = TRUE]
         [] Callback(op, "reject") ->
              [b EXCEPT !.status = "abort", !.finished = TRUE]
         [] Callback(op, "modify") ->
              [b EXCEPT !.status = IF reviewed2 /\ ReviewAccepted(op)
                                   THEN "wait" ELSE "abort",
                        !.gen_count = b.gen_count + 1,
                        !.finished = b.finished
                                     \/ ~(reviewed2 /\ ReviewAccepted(op))]
         [] op.kind = "abort" /\ op.username # "" ->
              [b EXCEPT !.status = "abort", !.finished = TRUE]
         [] OTHER -> b

\* the record an ended operation leaves, from the record it found
Outcome(op) == OutcomeFrom(op, Shown(op.before))

\* With one request handled at a time, every ended operation leaves the
\* record Outcome gives.
OutcomeWhenAlone ==
    \A p \in Procs :
        ops[p].pc = "done" /\ ops[p].kind # "" =>
            Shown(meta) = Outcome(ops[p])

\* The requests an ended operation has sent, in order, as a function of the
\* same inputs; op.html is the document the drafting service answered with
\* (new-send, modify) or the stored draft (approve).
ExpectedCalls(op) ==
    LET draft(instr) ==
            [NoCall EXCEPT !.svc = "draft", !.username = op.username,
                           !.instructions = instr,
                           !.base_html = op.base_html,
                           !.subject = op.merged.subject]
        review ==
            [NoCall EXCEPT !.svc = "review", !.html = op.html,
                           !.loop = op.before.gen_count + 1]
        stored == mergeConfig(config, EmptyPayload)
        deliver ==
            [NoCall EXCEPT !.svc = "deliver", !.html = op.html,
                           !.username = op.username,
                           !.subject = stored.subject, !.to = stored.to,
                           !.cc = stored.cc, !.bcc = stored.bcc,
                           !.sender_email = stored.sender_email,
                           !.sender_name = stored.sender_name]
        drafts(instr) ==
            IF op.html = "" THEN <<draft(instr)>>
            ELSE <<draft(instr), review>>
    IN CASE op.kind = "send" -> drafts(op.instructions)
         [] Callback(op, "approve") -> <<deliver>>
         [] Callback(op, "modify") ->
              drafts(IF op.instructions = " Make it shorter "
                     THEN "[Key Instruction] Make it shorter"
                     ELSE IF op.information = "too long"
                     THEN "[Key Instruction] too long" ELSE "")
         [] OTHER -> <<>>

\* an operation past validation that has ended
Ended(op) ==
    /\ op.pc = "done" /\ op.kind \in {"send", "callback"}
    /\ ~InvalidSend(op)

\* C19: the record an ended operation leaves and the requests it has sent
\* are determined by the record found, the request and the services'
\* answers, whether the operation ran synchronously or detached; so the two
\* modes leave the same record and make the same calls in the same order.
C19_ModesAgree ==
    \A p \in Procs :
        Ended(ops[p]) =>
            /\ Shown(meta) = Outcome(ops[p])
            /\ ops[p].calls = ExpectedCalls(ops[p])

\* a detached new-send that was accepted for review
C19_Witness ==
    \E p \in Procs :
        /\ Ended(ops[p]) /\ ops[p].async /\ ops[p].kind = "send"
        /\ ops[p].resp.code = 202
        /\ Len(ops[p].calls) = 2
        /\ meta.status = "wait"

\* the same, synchronous
C19_WitnessSync ==
    \E p \in Procs :
        /\ Ended(ops[p]) /\ ~ops[p].async /\ ops[p].kind = "send"
        /\ ops[p].resp.code = 200
        /\ Len(ops[p].calls) = 2
        /\ meta.status = "wait"

\* the acknowledgment of detached mode
Ack == sendJson(202, "accepted", "")

\* C20: a detached operation has been given the 202 acknowledgment before
\* the step that sends its first request to a service, and when it has
\* ended the response is that same acknowledgment, whatever the outcome.
C20_AckBeforeFirstCall ==
    [][ \A p \in Procs :
          ops'[p].async /\ ~InvalidSend(ops'[p]) =>
              /\ ops[p].calls = <<>> /\ ops'[p].calls # <<>> =>
                    ops[p].resp = Ack /\ ops'[p].resp = Ack
              /\ ops'[p].pc = "done" => ops'[p].resp = Ack ]_vars

\* a detached new-send that failed, acknowledged like any other
C20_Witness ==
    \E p \in Procs :
        /\ ops[p].async /\ ops[p].kind = "send" /\ ops[p].pc = "done"
        /\ ops[p].err = "author_agent_error"
        /\ ops[p].calls # <<>>
        /\ ops[p].resp = Ack

(***************************************************************************)
(* Overlapping requests.  Under ConcSpec a run has ConcOps requests for    *)
(* the instance, of which up to MaxConc are handled at the same time; the  *)
(* requests are valid ones, of two users, and the clock stands still.      *)
(***************************************************************************)
ConcSendRequests ==
    { r \in SendRequests : r.username # "" /\ r.instructions # ""
                           /\ r.overrides.to = List(<<"a@x.com">>) }
    \cup { [username |-> "bob", instructions |-> "Say hello",
            regen_base_html |-> "",
            overrides |-> [EmptyPayload EXCEPT !.subject = "Hi",
                                               !.to = List(<<"a@x.com">>)],
            async |-> FALSE] }

ConcCallbackRequests ==
    { b \in CallbackRequests :
        /\ b.response \in {"approve", "reject", "modify"}
        /\ b.result = "" /\ b.information = "" /\ b.username = ""
        /\ b.response = "modify" => b.instructions # "" }

\* number of requests of a run of ConcSpec
ConcOps == 2

ConcReceive ==
    \E p \in 1..ConcOps :
        \/ \E req \in ConcSendRequests : ComposeSend(p, req, MaxConc)
        \/ \E b \in ConcCallbackRequests : HandleHitlCallback(p, b, MaxConc)
        \/ HandleAbort(p, [username |-> "alice"], MaxConc)

ConcNext == ConcReceive \/ Step

ConcSpec == Init /\ [][ConcNext]_vars

\* C13: when the two requests of a run have overlapped and both have
\* ended, the stored record is the one left by handling them one after the
\* other, in one of the two orders, with the same answers of the services.
C13_Serializable ==
    /\ ops[1].pc = "done" /\ ops[1].kind # ""
    /\ ops[2].pc = "done" /\ ops[2].kind # ""
    /\ \A q \in Procs : q > 2 => ops[q].pc = "idle"
    => Shown(meta) \in
          { OutcomeFrom(ops[2], OutcomeFrom(ops[1], Shown(NoMeta))),
            OutcomeFrom(ops[1], OutcomeFrom(ops[2], Shown(NoMeta))) }

\* C14: gen_count never decreases, and when no operation is in flight it
\* equals the number of requests sent to the drafting service.
C14_GenCountMatchesDrafts ==
    [][ /\ meta'.gen_count >= meta.gen_count
        /\ inFlight' = {} => meta'.gen_count = tally'["draft"] ]_vars

\* a new-send and a modify callback that overlapped, both ended
C14_Witness ==
    /\ ops[1].pc = "done" /\ ops[2].pc = "done"
    /\ {ops[1].kind, ops[2].kind} = {"send", "callback"}
    /\ \E p \in {1, 2} : Callback(ops[p], "modify")
    /\ \A p \in {1, 2} : HasCall(ops[p], "draft")
    /\ meta.gen_count = 2
    /\ tally["draft"] = 2

\* an ended operation that failed: its handler threw, or its review
\* submission was answered and not accepted
Failed(op) ==
    /\ op.pc = "done" /\ op.kind \in {"send", "callback"}
    /\ \/ op.err # ""
       \/ HasCall(op, "review") /\ op.ret.ok /\ ~ReviewAccepted(op)

\* the operation has posted an event telling of a failure
HasFailureEvent(op) ==
    \E i \in 1..Len(op.events) :
        /\ op.events[i].service = "compose"
        /\ \/ op.events[i].message = "state - abort"
           \/ op.events[i].message = "Compose async error"

\* C21: a detached operation that failed has left the instance in a
\* terminal status and has posted an event telling of the failure.
C21_DetachedFailureRecorded ==
    \A p \in Procs :
        ops[p].async /\ Failed(ops[p]) =>
            /\ meta.status \in {"finished", "abort"}
            /\ HasFailureEvent(ops[p])

\* the part of C21 the code meets: the failures of the approve and modify
\* branches, which end through finishAs('abort')
C21_DetachedBranchFailureRecorded ==
    \A p \in Procs :
        /\ ops[p].async /\ Failed(ops[p])
        /\ ops[p].action \in {"approve", "modify"}
        => /\ meta.status = "abort"
           /\ HasFailureEvent(ops[p])

\* e is the lifecycle event of status st
IsStateEvent(e, st) ==
    /\ e.service = "compose" /\ e.event_type = "state_change"
    /\ e.message = "state - " \o st

\* no two successive events of op are lifecycle events of the same status
NoDoubleStateEvent(op) ==
    \A i \in 1..(Len(op.events) - 1) :
        \A st \in {"active", "wait", "abort", "finished"} :
            ~(IsStateEvent(op.events[i], st)
              /\ IsStateEvent(op.events[i + 1], st))

\* C22: a step that changes the status of the instance posts exactly one
\* event, the lifecycle event of the new status; and no operation posts
\* the lifecycle event of one status twice in a row.
C22_OneEventPerStatusChange ==
    [][ /\ meta'.status # meta.status =>
              \E p \in Procs :
                  /\ Len(ops'[p].events) = Len(ops[p].events) + 1
                  /\ IsStateEvent(ops'[p].events[Len(ops'[p].events)],
                                  meta'.status)
        /\ \A p \in Procs : NoDoubleStateEvent(ops'[p]) ]_vars

\* the two ways the code fails C22: the modify branch sets status active
\* with no lifecycle event, and a modify whose resubmission is not accepted
\* posts the abort event twice (abortInstance, then finishAs)
C22_ModifyActiveUnannounced ==
    \E p \in Procs :
        /\ Callback(ops[p], "modify") /\ ops[p].pc = "md_pre"
        /\ meta.status = "active"
        /\ \A i \in 1..Len(ops[p].events) :
              ~IsStateEvent(ops[p].events[i], "active")

C22_AbortAnnouncedTwice ==
    \E p \in Procs :
        /\ Callback(ops[p], "modify") /\ ops[p].pc = "done"
        /\ ~NoDoubleStateEvent(ops[p])

(***************************************************************************)
(* The log sink in any of its states: reachable, unreachable, or answering *)
(* with an error status.  One request is handled at a time.                *)
(***************************************************************************)
SinkSpec == SinkInit /\ [][SeqNext]_vars

\* The response an ended operation has given, as a function of its request
\* and of the answers of the services it called.
ExpectedResp(op) ==
    LET failed(msg) ==
            IF op.kind = "send" THEN sendJson(502, "compose_failed", msg)
            ELSE sendJson(400, "hitl_callback_failed", msg)
        drafted2 ==
            IF op.html = "" THEN failed("author_agent_error")
            ELSE IF ~op.ret.ok THEN failed("fetch failed")
            ELSE IF ReviewAccepted(op)
            THEN IF op.kind = "send" THEN sendJson(200, "result", "")
                 ELSE sendJson(200, "ok", "")
            ELSE IF op.kind = "send"
            THEN sendJson(200, "hitl_submit_failed", resultDetail(op.ret))
            ELSE failed("HITL resubmit failed")
    IN CASE op.async -> sendJson(202, "accepted", "")
         [] ~op.async /\ op.kind = "send" -> drafted2
         [] ~op.async /\ Callback(op, "modify") -> drafted2
         [] ~op.async /\ Callback(op, "approve") ->
              IF op.ret.ok THEN sendJson(200, "ok", "")
              ELSE failed("email_agent_error")
         [] ~op.async /\ Callback(op, "reject") -> sendJson(200, "ok", "")
         [] OTHER -> failed("unknown_hitl_result")

\* C23: whatever the state of the log sink, an ended operation has made
\* the calls, left the record and given the response that its request and
\* the services' answers determine; none of them depends on whether its
\* events were received.
C23_EmissionFailureHarmless ==
    \A p \in Procs :
        Ended(ops[p]) =>
            /\ ops[p].calls = ExpectedCalls(ops[p])
            /\ Shown(meta) = Outcome(ops[p])
            /\ ops[p].resp = ExpectedResp(ops[p])

\* a new-send accepted for review, none of whose events was received
C23_Witness ==
    \E p \in Procs :
        /\ sink # "up"
        /\ Ended(ops[p]) /\ ops[p].kind = "send" /\ ~ops[p].async
        /\ Len(ops[p].events) >= 4
        /\ \A i \in 1..Len(ops[p].events) : ~ops[p].events[i].received
        /\ Len(ops[p].calls) = 2
        /\ meta.status = "wait"
        /\ ops[p].resp = sendJson(200, "result", "")

\* an approval delivered while the sink answers with an error status
C23_WitnessApprove ==
    \E p \in Procs :
        /\ sink = "error"
        /\ Ended(ops[p]) /\ Callback(ops[p], "approve")
        /\ meta.status = "finished"
        /\ ops[p].resp = sendJson(200, "ok", "")

\* the place of an event's step in the course of one operation: receipt,
\* state active, pre-drafting, a called service's own events, the verdict
\* on the review submission, the resulting state change or error; 0 for an
\* event of no known step
StepRank(e) ==
    CASE e.service = "compose" /\ e.event_type = "record"
         /\ e.message \in {"Email-App Agent received call to launch",
                           "hitl-callback: approve", "hitl-callback: reject",
                           "hitl-callback: modify", "hitl-callback: bogus",
                           "hitl-callback: unknown"} -> 1
      [] IsStateEvent(e, "active") -> 2
      [] e.service = "compose" /\ e.event_type = "record"
         /\ e.message \in {"Calling LLM to generate email",
                           "Calling LLM to re-generate email"} -> 3
      [] e.service = "author-agent" -> 4
      [] e.service = "send-agent" /\ e.message = "Sending email" -> 4
      [] e.service = "send-agent" /\ e.message = "Email sent" -> 5
      [] e.service = "compose"
         /\ e.message \in {"HITL submission accepted",
                           "HITL submission rejected"} -> 5
      [] IsStateEvent(e, "wait") \/ IsStateEvent(e, "abort")
         \/ IsStateEvent(e, "finished") -> 6
      [] e.service = "compose" /\ e.event_type = "record"
         /\ e.message \in {"Compose error", "Compose async error"} -> 6
      [] OTHER -> 0

\* C24: the events of one operation are emitted in the order of its steps:
\* every event belongs to a step, and an event of a later step never comes
\* before an event of an earlier step (two events of the same step being
\* the abort event posted twice).
C24_EventsInStepOrder ==
    \A p \in Procs :
        LET ev == ops[p].events
        IN /\ \A i \in 1..Len(ev) : StepRank(ev[i]) > 0
           /\ \A i, j \in 1..Len(ev) :
                 i < j =>
                     \/ StepRank(ev[i]) < StepRank(ev[j])
                     \/ /\ IsStateEvent(ev[i], "abort")
                        /\ IsStateEvent(ev[j], "abort")

\* a new-send accepted for review has emitted the events of its six steps
C24_Witness ==
    \E p \in Procs :
        /\ Ended(ops[p]) /\ ops[p].kind = "send"
        /\ Len(ops[p].events) = 6
        /\ IsStateEvent(ops[p].events[2], "active")
        /\ IsStateEvent(ops[p].events[6], "wait")

\* an approval whose last event is the one finishAs does not wait for
C24_WitnessFinishAs ==
    \E p \in Procs :
        /\ Ended(ops[p]) /\ Callback(ops[p], "approve")
        /\ Len(ops[p].events) = 4
        /\ IsStateEvent(ops[p].events[4], "finished")

(***************************************************************************)
(* Two users on one instance, one request at a time: the valid new-sends   *)
(* of alice and bob, the callbacks, aborts by either user, and the clock.  *)
(***************************************************************************)
OwnerReceive ==
    \E p \in Procs :
        \/ \E req \in ConcSendRequests : ComposeSend(p, req, 1)
        \/ \E b \in ConcCallbackRequests : HandleHitlCallback(p, b, 1)
        \/ \E u \in {"alice", "bob"} : HandleAbort(p, [username |-> u], 1)

OwnerNext == OwnerReceive \/ Step \/ Tick

OwnerSpec == Init /\ [][OwnerNext]_vars

\* C25: the activation of a new-send sets owner and started_at when they
\* are unset (to the request's username and the time of the activation),
\* and no step changes an owner or a started_at that is set.
C25_OwnerAndStartFixed ==
    [][ /\ meta.owner # "" => meta'.owner = meta.owner
        /\ meta.started_at # 0 => meta'.started_at = meta.started_at
        /\ \A p \in Procs :
              ops[p].pc = "cs_recv" /\ ops'[p].pc = "cs_active" =>
                  /\ meta'.status = "active"
                  /\ meta.owner = "" => meta'.owner = ops[p].username
                  /\ meta.started_at = 0 => meta'.started_at = now ]_vars

\* bob's new-send on alice's instance, activated later than hers, has ended
C25_Witness ==
    \E p \in Procs :
        /\ ops[p].kind = "send" /\ ops[p].username = "bob"
        /\ ops[p].pc = "done" /\ Len(ops[p].calls) = 2
        /\ ops[p].before.owner = "alice"
        /\ meta.owner = "alice"
        /\ meta.started_at = 1 /\ now = MaxTime

\* an abort by bob of alice's instance
C25_WitnessAbort ==
    \E p \in Procs :
        /\ ops[p].kind = "abort" /\ ops[p].username = "bob"
        /\ ops[p].pc = "done"
        /\ meta.owner = "alice" /\ meta.started_at # 0
        /\ meta.status = "abort"

\* C26: finished_at is written once, by the step that takes the instance
\* to finished or abort: a step that changes it leaves a terminal status,
\* and once set it is not changed.
C26_FinishedAtOnce ==
    [][ /\ meta'.finished_at # meta.finished_at =>
              meta'.status \in {"finished", "abort"}
        /\ meta.finished_at # 0 => meta'.finished_at = meta.finished_at ]_vars

\* how the code fails C26: an abort request on an instance that has
\* finished earlier has replaced its finished_at
C26_Restamped ==
    \E p \in Procs :
        /\ ops[p].kind = "abort" /\ ops[p].pc = "done"
        /\ ops[p].before.status = "finished"
        /\ ops[p].before.finished_at = 1
        /\ meta.finished_at = MaxTime

(***************************************************************************)
(* The review service answering with any transport status and body: a     *)
(* new-send and its modify callbacks, one request at a time, no clock.     *)
(***************************************************************************)
\* status codes the review service may answer with
ReviewCodes == {200, 201, 202, 204, 404, 500}

\* the answers of the review service: res.status, body.error, body.status
ReviewAnswers ==
    { [NoRet EXCEPT !.ok = TRUE, !.code = c, !.error = e, !.status = s] :
        c \in ReviewCodes, e \in {"", "bad"},
        s \in {"", "pending", "no-hitl", "skip"} }

\* callHitlAgent returns { status: res.status, body }
HitlAnswer(p, r) ==
    /\ ops[p].pc = "hitl"
    /\ r \in ReviewAnswers
    /\ ops' = [ops EXCEPT ![p].pc = "hitl_r", ![p].ret = r]
    /\ UNCHANGED <<meta, config, sink, artifacts, now, drafted, tally,
                   delivered, reviewed, launched>>

AcceptReceive ==
    \E p \in Procs :
        \/ \E req \in ConcSendRequests : ComposeSend(p, req, 1)
        \/ \E b \in ConcCallbackRequests : HandleHitlCallback(p, b, 1)
        \/ HandleAbort(p, [username |-> "alice"], 1)

AcceptNext ==
    \/ AcceptReceive
    \/ Step
    \/ \E p \in Procs : \E r \in ReviewAnswers : HitlAnswer(p, r)

AcceptSpec == Init /\ [][AcceptNext]_vars

\* the verdict of submitHitlAndHandle on the answer of op's review call
Verdict(op) ==
    CASE op.pc \in {"sh_acc1", "sh_acc2"} -> "accepted"
      [] op.pc \in {"sh_rej1", "sh_rej2", "md_rej"} -> "not accepted"
      [] OTHER -> ""

\* C27: a review submission counts as accepted exactly when the transport
\* status is a success code (2xx), the body has no error and the body's
\* status is neither "no-hitl" nor "skip".
C27_AcceptedIffSuccess ==
    \A p \in Procs :
        Verdict(ops[p]) # "" =>
            (Verdict(ops[p]) = "accepted" <=>
                /\ ops[p].ret.code \in 200..299
                /\ ops[p].ret.error = ""
                /\ ops[p].ret.status \notin {"no-hitl", "skip"})

\* what the code does: the claim with 200 and 202 as the success codes
C27_AcceptedIff200or202 ==
    \A p \in Procs :
        Verdict(ops[p]) # "" =>
            (Verdict(ops[p]) = "accepted" <=>
                /\ ops[p].ret.code \in {200, 202}
                /\ ops[p].ret.error = ""
                /\ ops[p].ret.status \notin {"no-hitl", "skip"})

\* a review answered 201 with a clean body has ended in abort
C27_CreatedNotAccepted ==
    \E p \in Procs :
        /\ ops[p].kind = "send" /\ ops[p].pc = "done"
        /\ ops[p].ret.ok /\ ops[p].ret.code = 201
        /\ ops[p].ret.error = "" /\ ops[p].ret.status = ""
        /\ meta.status = "abort"

(***************************************************************************)
(* mergeConfig on every combination of stored and supplied fields: one     *)
(* new-send on an instance with any config.json.                           *)
(***************************************************************************)
\* config.json with each key set or not
MergeConfigs ==
    [subject : {"", "CfgSubject"}, EMAIL_SUBJECT : {"", "EnvSubject"},
     to : {NoList, List(<<"c@x.com">>)},
     cc : {NoList, List(<<"cc@x.com">>)},
     bcc : {NoList, List(<<"bcc@x.com">>)},
     sender_email : {"", "noreply@x.com"}, SENDER_EMAIL : {"", "env@x.com"},
     sender_name : {"", "Cfg Sender"}, SENDER_NAME : {"", "Env Sender"}]

\* the overrides of a request body, each supplied or not; to: [] is
\* supplied and empty
MergeOverrides ==
    [subject : {"", "Hi"},
     to : {NoList, List(<<>>), List(<<"a@x.com">>)},
     cc : {NoList, List(<<"rc@x.com">>)},
     bcc : {NoList, List(<<"rb@x.com">>)},
     sender_email : {"", "me@x.com"}, sender_name : {"", "Me"}]

MergeRequests ==
    { [username |-> "alice", instructions |-> "Say hello",
       regen_base_html |-> "", overrides |-> o, async |-> FALSE] :
        o \in MergeOverrides }

MergeInit == Fresh /\ config \in MergeConfigs /\ sink = "up"

MergeNext == \E req \in MergeRequests : ComposeSend(1, req, 1)

MergeSpec == MergeInit /\ [][MergeNext]_vars

\* the merged value of a text field against the request's value and the
\* two keys of config.json
TextMerged(m, req, cfg, env) ==
    /\ req # "" => m = req
    /\ req = "" /\ cfg # "" => m = cfg
    /\ req = "" /\ cfg = "" => m = env

\* the merged value of a list field
ListMerged(m, req, cfg) ==
    /\ req.present => m = req.items
    /\ ~req.present /\ cfg.present => m = cfg.items
    /\ ~req.present /\ ~cfg.present => m = <<>>

\* C28: each merged field is the request's value when the request supplies
\* one and the stored configuration's value otherwise, field by field.
C28_FieldLevelOverride ==
    \A p \in Procs :
        ops[p].kind = "send" =>
            LET m == ops[p].merged
                r == ops[p].payload
            IN /\ TextMerged(m.subject, r.subject, config.subject,
                             config.EMAIL_SUBJECT)
               /\ ListMerged(m.to, r.to, config.to)
               /\ ListMerged(m.cc, r.cc, config.cc)
               /\ ListMerged(m.bcc, r.bcc, config.bcc)
               /\ TextMerged(m.sender_email, r.sender_email,
                             config.sender_email, config.SENDER_EMAIL)
               /\ TextMerged(m.sender_name, r.sender_name,
                             config.sender_name, config.SENDER_NAME)

\* a request supplying subject and cc only has kept the configuration's
\* recipients and sender
C28_Witness ==
    \E p \in Procs :
        /\ ops[p].kind = "send" /\ ops[p].pc = "cs_recv"
        /\ ops[p].payload = [EmptyPayload EXCEPT !.subject = "Hi",
                                !.cc = List(<<"rc@x.com">>)]
        /\ config.subject = "CfgSubject"
        /\ ops[p].merged =
              [subject |-> "Hi", to |-> <<"c@x.com">>, cc |-> <<"rc@x.com">>,
               bcc |-> <<"bcc@x.com">>, sender_email |-> "noreply@x.com",
               sender_name |-> "Env Sender"]

\* the request op has just sent to the review service
LastCall(op) == op.calls[Len(op.calls)]

\* C29: a review submission carries the loop counter loopIndex + 1, where
\* loopIndex is the gen_count the operation's own increment produced, less
\* one, and equals the number of review submissions made before it for the
\* instance.
C29_LoopIndexCountsReviews ==
    \A p \in Procs :
        ops[p].pc = "hitl" =>
            /\ LastCall(ops[p]).svc = "review"
            /\ LastCall(ops[p]).loop = (ops[p].nextGen - 1) + 1
            /\ ops[p].nextGen - 1 = tally["review"] - 1

\* the part of C29 the code meets: the counter comes from the operation's
\* own increment of gen_count
C29_LoopFromOwnIncrement ==
    \A p \in Procs :
        ops[p].pc = "hitl" =>
            /\ LastCall(ops[p]).svc = "review"
            /\ LastCall(ops[p]).loop = ops[p].nextGen
            /\ ops[p].nextGen = ops[p].before.gen_count + 1
            /\ meta.gen_count = ops[p].nextGen

\* how the code fails C29: the first review submission of an instance
\* whose first draft failed carries loop 2
C29_FirstReviewLoopTwo ==
    \E p \in Procs :
        /\ ops[p].pc = "hitl" /\ ops[p].kind = "send"
        /\ tally["review"] = 1
        /\ LastCall(ops[p]).loop = 2

\* C30: after n successful generate calls, email.html holds the n-th draft
\* and email-k.html the (n - k)-th, for k = 1 .. n - 1; no other file
\* exists and no draft is lost.
C30_DraftsRotated ==
    /\ DOMAIN artifacts = 0..(drafted - 1)
    /\ \A k \in DOMAIN artifacts : artifacts[k] = HtmlName(drafted - k)

\* three drafts have been generated and kept
C30_Witness ==
    /\ drafted = 3
    /\ artifacts = [k \in 0..2 |-> HtmlName(3 - k)]
    /\ \E p \in Procs : ops[p].pc = "draft_r" /\ ops[p].ret.html = HtmlName(3)

(***************************************************************************)
(* send-agent on its own: clients post any body to POST /send, one at a    *)
(* time.                                                                   *)
(***************************************************************************)
\* bodies of POST /send
DirectSendRequests ==
    { [NoCall EXCEPT !.svc = "deliver", !.instance_id = i, !.username = u,
                     !.html = h, !.subject = s, !.to = t, !.cc = c,
                     !.bcc = b] :
        i \in {InstanceId, "", "  "}, u \in {"alice", ""}, h \in {"H1", ""},
        s \in {"Hi", ""}, t \in {<<>>, <<"">>, <<"a@x.com">>},
        c \in {<<>>, <<"cc@x.com">>}, b \in {<<>>, <<"">>} }

\* a client posts body c to POST /send
DirectSend(p, c) ==
    /\ canStart(p, 1)
    /\ c \in DirectSendRequests
    /\ ops' = receive(p, [IdleOp EXCEPT !.kind = "direct", !.pc = "send",
                                        !.calls = <<c>>])
    /\ UNCHANGED <<meta, config, sink, artifacts, now, drafted, tally,
                   delivered, reviewed, launched>>

\* the client has the response of handleSend
DirectReturn(p) ==
    /\ ops[p].pc = "send_r"
    /\ ops[p].kind = "direct"
    /\ ops' = [ops EXCEPT ![p].pc = "done"]
    /\ UNCHANGED <<meta, config, sink, artifacts, now, drafted, tally,
                   delivered, reviewed, launched>>

DirectNext ==
    \E p \in Procs :
        \/ \E c \in DirectSendRequests : DirectSend(p, c)
        \/ \E out \in SendOutcomes : handleSend(p, out)
        \/ DirectReturn(p)

DirectSpec == Init /\ [][DirectNext]_vars

\* some address of the list is not empty
HasAddress(list) == \E i \in 1..Len(list) : list[i] # ""

\* body c has all that the claim requires of a request
CompleteSend(c) ==
    /\ c.instance_id \notin {"", "  "}
    /\ c.username # ""
    /\ c.html # ""
    /\ c.subject # ""
    /\ HasAddress(c.to) \/ HasAddress(c.cc) \/ HasAddress(c.bcc)

\* C31: when send-agent answers a request, it has called the mail provider
\* (answer 200 or 502, email.html written to) only if the request has a
\* valid instance id, a username, html, a subject and a non-empty
\* recipient; any other request is answered 400 with a reason and nothing
\* is sent, written or logged.
C31_ProviderOnlyForCompleteSend ==
    [][ \A p \in Procs :
          ops[p].pc = "send" /\ ops'[p].pc = "send_r"
          /\ ops'[p].ret.code # 0 =>
              IF CompleteSend(LastCall(ops[p]))
              THEN /\ ops'[p].ret.code \in {200, 502}
                   /\ artifacts'[0] = LastCall(ops[p]).html
              ELSE /\ ops'[p].ret.code = 400
                   /\ ops'[p].ret.error # ""
                   /\ delivered' = delivered
                   /\ artifacts' = artifacts
                   /\ ops'[p].events = ops[p].events ]_vars

\* a request with nothing missing but its html has been answered 400
C31_Witness ==
    \E p \in Procs :
        /\ ops[p].kind = "direct" /\ ops[p].pc = "done"
        /\ LastCall(ops[p]).html = ""
        /\ CompleteSend([LastCall(ops[p]) EXCEPT !.html = "H1"])
        /\ ops[p].ret.code = 400 /\ ops[p].ret.error = "html_required"
        /\ delivered = 0

\* a complete request has been sent
C31_WitnessSent ==
    \E p \in Procs :
        /\ ops[p].kind = "direct" /\ ops[p].pc = "done"
        /\ CompleteSend(LastCall(ops[p]))
        /\ LastCall(ops[p]).to = <<>> /\ LastCall(ops[p]).cc # <<>>
        /\ ops[p].ret.code = 200 /\ delivered = 1

\* a synchronous new-send past validation that has ended
SyncSendEnded(op) == Ended(op) /\ op.kind = "send" /\ ~op.async

\* C32: a synchronous new-send is answered with a success status only when
\* it has left the instance in wait; when it has not (review not accepted,
\* drafting or review call failed) the answer has a non-success status and
\* a reason.
C32_SyncErrorIsNonSuccess ==
    \A p \in Procs :
        SyncSendEnded(ops[p]) =>
            /\ ops[p].resp.code \in 200..299 => meta.status = "wait"
            /\ meta.status # "wait" =>
                  /\ ops[p].resp.code \notin 200..299
                  /\ ops[p].resp.body # ""

\* the part of C32 the code meets: the result payload is given only in
\* wait, and a failed drafting or review call is answered 502 with a reason
C32_ResultOnlyInWait ==
    \A p \in Procs :
        SyncSendEnded(ops[p]) =>
            /\ ops[p].resp.body = "result" <=> meta.status = "wait"
            /\ ops[p].err # "" =>
                  ops[p].resp = sendJson(502, "compose_failed", ops[p].err)

\* how the code fails C32: the review answered 200 with status no-hitl,
\* the instance is aborted, and the caller is answered 200 with a payload
\* whose status field is the review's 200
C32_AbortAnswered200 ==
    \E p \in Procs :
        /\ SyncSendEnded(ops[p])
        /\ meta.status = "abort"
        /\ ops[p].ret.code = 200 /\ ops[p].ret.status = "no-hitl"
        /\ ops[p].resp.code = 200
        /\ ops[p].resp.body = "hitl_submit_failed"

\* an explicit abort request has been answered 200
AbortAcknowledged ==
    \E q \in Procs :
        /\ ops[q].kind = "abort" /\ ops[q].pc = "done"
        /\ ops[q].resp.code = 200

\* C33: once an abort request has been acknowledged, no step sends a
\* request to the delivery service and no step leaves the instance in
\* wait or finished.
C33_NothingAfterAbort ==
    [][ AbortAcknowledged =>
            /\ tally'["deliver"] = tally["deliver"]
            /\ meta'.status \notin {"wait", "finished"} ]_vars

\* how the code fails C33: a new-send in flight at the abort goes on and
\* leaves the instance in wait
C33_WaitAfterAbort ==
    /\ AbortAcknowledged
    /\ meta.status = "wait"
    /\ \E p \in Procs : ops[p].kind = "send" /\ ops[p].pc = "done"

\* and an approve callback received after the acknowledgment calls the
\* delivery service
C33_DeliveryAfterAbort ==
    /\ AbortAcknowledged
    /\ \E p \in Procs :
          /\ Callback(ops[p], "approve") /\ ops[p].before.status = "abort"
          /\ HasCall(ops[p], "deliver")

\* the requests op has sent to the delivery service
DeliverCalls(op) ==
    { i \in 1..Len(op.calls) : op.calls[i].svc = "deliver" }

\* C34: every document handed to the delivery service has been submitted
\* to the review service before, and is not empty.
C34_DeliveredWasReviewed ==
    \A p \in Procs :
        \A i \in DeliverCalls(ops[p]) :
            /\ ops[p].calls[i].html # ""
            /\ ops[p].calls[i].html \in reviewed

\* how the code fails C34: an approve overlapping a modify hands over the
\* draft the modify has had written and has not yet submitted for review
C34_UnreviewedDraftDelivered ==
    \E p, q \in Procs :
        /\ Callback(ops[p], "approve") /\ Callback(ops[q], "modify")
        /\ ops[q].pc \in {"draft_r", "hitl"}
        /\ \E i \in DeliverCalls(ops[p]) :
              /\ ops[p].calls[i].html # ""
              /\ ops[p].calls[i].html = ops[q].ret.html
              /\ ops[p].calls[i].html \notin reviewed

\* and an approve of an instance without a draft hands over the empty
\* document
C34_EmptyDocumentDelivered ==
    \E p \in Procs :
        /\ Callback(ops[p], "approve")
        /\ \E i \in DeliverCalls(ops[p]) : ops[p].calls[i].html = ""

C35_FinishedOnlyAfterDeliveryConc ==
    /\ meta.status = "finished" => delivered >= 1
    /\ \A p \in Procs :
          HasCall(ops[p], "deliver") => Callback(ops[p], "approve")

C35_WitnessFailed ==
    \E p \in Procs :
        /\ Callback(ops[p], "approve") /\ ops[p].pc = "done"
        /\ ops[p].ret.error = "provider_error"
        /\ delivered = 0
        /\ meta.status = "abort"

=============================================================================
